---- MODULE Spec2Model ----
(***************************************************************************)
(* Model of image-cropper: the undo/redo history hook                      *)
(* (src/src/utils/useHistory.ts), the geometry helpers                     *)
(* (src/src/components/helpers) and the ImageCropper component             *)
(* (src/src/components/ImageCropper.tsx).                                  *)
(*                                                                         *)
(* The hook keeps one React state cell `history` = {past, present, future},*)
(* one state cell `staged` and one ref `stagedRef`.  Every operation is    *)
(* modelled as the whole call together with the render that applies the    *)
(* state updates it queued (each call in its own act()/event handler).     *)
(***************************************************************************)
EXTENDS Integers, Sequences, FiniteSets, TLC

(***************************************************************************)
(* Bounds                                                                  *)
(***************************************************************************)
\* commit is not called any more once past holds this many entries
MaxPast == 3

(***************************************************************************)
(* JavaScript values of the type parameter T.                              *)
(* A primitive is a number, NaN or null; an object is its list of          *)
(* (key, primitive) properties in insertion order; T may include null.     *)
(***************************************************************************)
Num(n)  == [t |-> "number", n |-> n]
NaN     == [t |-> "NaN", n |-> 0]
NullP   == [t |-> "null", n |-> 0]

Obj(props) == [kind |-> "object", props |-> props]
Null       == [kind |-> "null", props |-> <<>>]
\* the absent optional argument of commit(newState?: T)
Undefined  == [kind |-> "undefined", props |-> <<>>]

\* the values of T the model draws its inputs from
Values ==
  { Obj(<< <<"x", Num(0)>>, <<"y", Num(0)>> >>),
    Obj(<< <<"x", Num(1)>>, <<"y", Num(0)>> >>),
    Obj(<< <<"y", Num(0)>>, <<"x", Num(1)>> >>),
    Obj(<< <<"x", NaN>>,    <<"y", Num(0)>> >>),
    Obj(<< <<"x", NullP>>,  <<"y", Num(0)>> >>),
    Null }

\* what commit can be called with: a T, or nothing
CommitArgs == Values \cup {Undefined}

(***************************************************************************)
(* JSON.stringify, as a sequence of output tokens.                         *)
(* Numbers print as their digits, NaN and null both print as null, the     *)
(* properties of an object print in insertion order.                       *)
(***************************************************************************)
DigitsOf(n) == IF n = 0 THEN "0" ELSE IF n = 1 THEN "1" ELSE "2"

StringifyPrim(p) ==
  CASE p.t = "number" -> DigitsOf(p.n)
    [] p.t = "NaN"    -> "null"
    [] p.t = "null"   -> "null"

RECURSIVE StringifyProps(_)
StringifyProps(props) ==
  IF props = <<>> THEN <<>>
  ELSE << props[1][1], ":", StringifyPrim(props[1][2]) >>
       \o (IF Len(props) > 1 THEN <<",">> ELSE <<>>)
       \o StringifyProps(Tail(props))

JSONstringify(v) ==
  CASE v.kind = "object"    -> <<"{">> \o StringifyProps(v.props) \o <<"}">>
    [] v.kind = "null"      -> <<"null">>
    [] v.kind = "undefined" -> <<"undefined">>

(***************************************************************************)
(* State                                                                   *)
(***************************************************************************)
VARIABLES
  history,    \* useState<HistoryState<T>>: [past, present, future]
  staged,     \* useState<T>: the live display state (`state` of the API)
  stagedRef,  \* useRef<T>: what the callbacks read as the staged value
  op,         \* the operation called last ("init" before the first call)
  arg,        \* its argument (Undefined when it takes or got none)
  run,        \* the scripted call sequence in progress and its position
  timers,     \* remaining ms of each live deferred-commit timer, oldest first
  idleMs,     \* ms since the last interaction event, counted up to DebounceMs
  search,     \* a call of findMaxRotation: its arguments, lo, hi and i
  helper,     \* a call of another geometry helper: arguments and result
  cropper     \* the state cells, props and memoised values of ImageCropper

vars ==
  <<history, staged, stagedRef, op, arg, run, timers, idleMs, search, cropper,
    helper>>

\* the state outside the hook and its script
others == <<timers, idleMs, search, cropper, helper>>

HistoryOf(past, present, future) ==
  [past |-> past, present |-> present, future |-> future]

\* canUndo that needs two past entries (off-by-one comparison)
canUndo_offByOne == Len(history.past) > 1

\* the derived fields of the returned HistoryAPI
committed == history.present
canUndo   == Len(history.past) > 0
canRedo   == Len(history.future) > 0
getHistory ==
  [past |-> history.past, present |-> history.present,
   future |-> history.future]

(***************************************************************************)
(* The updater functions passed to setHistory                              *)
(***************************************************************************)
\* commit written with undo's future line: the old present is also queued
\* for redo
commitUpdater_pushesBoth(h, toCommit) ==
  IF JSONstringify(toCommit) = JSONstringify(h.present) THEN h
  ELSE HistoryOf(Append(h.past, h.present), toCommit,
                 <<h.present>> \o h.future)

\* commit that forgets to clear the redo stack
commitUpdater_keepsFuture(h, toCommit) ==
  IF JSONstringify(toCommit) = JSONstringify(h.present) THEN h
  ELSE HistoryOf(Append(h.past, h.present), toCommit, h.future)

commitUpdater(h, toCommit) ==
  IF JSONstringify(toCommit) = JSONstringify(h.present) THEN h
  ELSE HistoryOf(Append(h.past, h.present), toCommit, <<>>)

\* undo that puts the old present at the end of future
undoUpdater_appendsFuture(prev) ==
  IF Len(prev.past) = 0 THEN prev
  ELSE HistoryOf(SubSeq(prev.past, 1, Len(prev.past) - 1),
                 prev.past[Len(prev.past)],
                 Append(prev.future, prev.present))

undoUpdater(prev) ==
  IF Len(prev.past) = 0 THEN prev
  ELSE HistoryOf(SubSeq(prev.past, 1, Len(prev.past) - 1),
                 prev.past[Len(prev.past)],
                 <<prev.present>> \o prev.future)

\* redo that takes the last entry of future instead of the first
redoUpdater_takesLast(prev) ==
  IF Len(prev.future) = 0 THEN prev
  ELSE HistoryOf(Append(prev.past, prev.present),
                 prev.future[Len(prev.future)],
                 SubSeq(prev.future, 1, Len(prev.future) - 1))

redoUpdater(prev) ==
  IF Len(prev.future) = 0 THEN prev
  ELSE HistoryOf(Append(prev.past, prev.present),
                 prev.future[1],
                 Tail(prev.future))

\* newState ?? stagedRef.current
toCommitOf(newState, ref) ==
  IF newState.kind \in {"null", "undefined"} THEN ref ELSE newState

(***************************************************************************)
(* The callbacks of the hook                                               *)
(***************************************************************************)
\* stage that also records a history entry
stage_commits(newState) ==
  /\ stagedRef' = newState
  /\ staged' = newState
  /\ history' = commitUpdater(history, newState)

stage(newState) ==
  /\ stagedRef' = newState
  /\ staged' = newState
  /\ UNCHANGED history

commit(newState) ==
  /\ IF newState # Undefined
       THEN stagedRef' = newState /\ staged' = newState
       ELSE UNCHANGED <<stagedRef, staged>>
  /\ history' = commitUpdater(history, toCommitOf(newState, stagedRef))

undo ==
  /\ history' = undoUpdater(history)
  /\ IF Len(history.past) = 0
       THEN UNCHANGED <<stagedRef, staged>>
       ELSE /\ stagedRef' = history.past[Len(history.past)]
            /\ staged' = history.past[Len(history.past)]

redo ==
  /\ history' = redoUpdater(history)
  /\ IF Len(history.future) = 0
       THEN UNCHANGED <<stagedRef, staged>>
       ELSE /\ stagedRef' = history.future[1]
            /\ staged' = history.future[1]

\* reset that leaves the redo stack in place
reset_keepsFuture(initialState) ==
  /\ stagedRef' = initialState
  /\ staged' = initialState
  /\ history' = HistoryOf(<<>>, initialState, history.future)

reset(initialState) ==
  /\ stagedRef' = initialState
  /\ staged' = initialState
  /\ history' = HistoryOf(<<>>, initialState, <<>>)

(***************************************************************************)
(* Construction: useHistory(initialState)                                  *)
(***************************************************************************)
useHistory(initialState) ==
  /\ history = HistoryOf(<<>>, initialState, <<>>)
  /\ staged = initialState
  /\ stagedRef = initialState
  /\ op = "init"
  /\ arg = Undefined

\* run.pc = "free": no script, the owner calls the hook in any order
NoRun == [pc |-> "free", initial |-> Null, A |-> Null, B |-> Null, C |-> Null]

\* no deferred commit is scheduled, no search is running, no cropper mounted,
\* no helper called
NoSearch == [pc |-> "idle"]
Unmounted == [mounted |-> FALSE]
NoHelper == [pc |-> "idle"]

NoTimers ==
  /\ timers = <<>>
  /\ idleMs = 0
  /\ search = NoSearch
  /\ cropper = Unmounted
  /\ helper = NoHelper

Init ==
  /\ \E initialState \in Values : useHistory(initialState)
  /\ run = NoRun
  /\ NoTimers

(***************************************************************************)
(* Calls made by the owner of the hook, in any order                       *)
(***************************************************************************)
StageCall ==
  \E v \in Values :
    /\ stage(v)
    /\ op' = "stage" /\ arg' = v
    /\ UNCHANGED run
    /\ UNCHANGED others

CommitCall ==
  \E v \in CommitArgs :
    /\ Len(history.past) < MaxPast
    /\ commit(v)
    /\ op' = "commit" /\ arg' = v
    /\ UNCHANGED run
    /\ UNCHANGED others

UndoCall ==
  /\ undo
  /\ op' = "undo" /\ arg' = Undefined
  /\ UNCHANGED run
  /\ UNCHANGED others

RedoCall ==
  /\ redo
  /\ op' = "redo" /\ arg' = Undefined
  /\ UNCHANGED run
  /\ UNCHANGED others

ResetCall ==
  \E v \in Values :
    /\ reset(v)
    /\ op' = "reset" /\ arg' = v
    /\ UNCHANGED run
    /\ UNCHANGED others

Next ==
  \/ StageCall
  \/ CommitCall
  \/ UndoCall
  \/ RedoCall
  \/ ResetCall

Spec == Init /\ [][Next]_vars

(***************************************************************************)
(* The scripted sequence commit(A); commit(B); undo(); commit(C) on a      *)
(* fresh history (test/useHistory.spec.ts, "new commit clears the redo     *)
(* stack"), for every initial value and every A, B, C.                     *)
(***************************************************************************)
ScenarioInit ==
  \E initialState \in Values, a \in Values, b \in Values, c \in Values :
    /\ useHistory(initialState)
    /\ run = [pc |-> "start", initial |-> initialState,
                A |-> a, B |-> b, C |-> c]
    /\ NoTimers

ScenarioCommitA ==
  /\ run.pc = "start"
  /\ commit(run.A)
  /\ op' = "commit" /\ arg' = run.A
  /\ run' = [run EXCEPT !.pc = "A"]
  /\ UNCHANGED others

ScenarioCommitB ==
  /\ run.pc = "A"
  /\ commit(run.B)
  /\ op' = "commit" /\ arg' = run.B
  /\ run' = [run EXCEPT !.pc = "AB"]
  /\ UNCHANGED others

ScenarioUndo ==
  /\ run.pc = "AB"
  /\ undo
  /\ op' = "undo" /\ arg' = Undefined
  /\ run' = [run EXCEPT !.pc = "ABu"]
  /\ UNCHANGED others

ScenarioCommitC ==
  /\ run.pc = "ABu"
  /\ commit(run.C)
  /\ op' = "commit" /\ arg' = run.C
  /\ run' = [run EXCEPT !.pc = "ABuC"]
  /\ UNCHANGED others

ScenarioNext ==
  \/ ScenarioCommitA
  \/ ScenarioCommitB
  \/ ScenarioUndo
  \/ ScenarioCommitC

ScenarioSpec == ScenarioInit /\ [][ScenarioNext]_vars

(***************************************************************************)
(* Several calls of the hook made by one event handler.  React runs the    *)
(* handler to its end and renders afterwards: setStaged and setHistory     *)
(* only queue an update, stagedRef.current is written at once.  An updater *)
(* function passed to setHistory runs at the render when the component     *)
(* already has an update pending; when it has none React may run it inside *)
(* the call itself.  The updaters of undo and redo write stagedRef.current *)
(* and call setStaged, so these writes happen when the updater runs.       *)
(***************************************************************************)
\* calls made by one handler
MaxBatch == 3

\* the values the batched calls draw their arguments from
BatchValues ==
  { Obj(<< <<"x", Num(0)>>, <<"y", Num(0)>> >>),
    Obj(<< <<"x", Num(1)>>, <<"y", Num(0)>> >>) }

\* an update in the queue of the history cell: the call that queued it, the
\* argument of that call, the state React already computed for it (eager),
\* or what the updater closes over (toCommit)
Update(kind, call, newState, eager, state, toCommit) ==
  [kind |-> kind, call |-> call, arg |-> newState, eager |-> eager,
   state |-> state, toCommit |-> toCommit]

\* no handler is running: nothing is queued and display is what staged holds
Idle(shown) == [pc |-> "idle", calls |-> 0, pending |-> FALSE,
                queue |-> <<>>, display |-> shown]

\* setStaged(v): the value staged takes at the render; React drops the update
\* only when v is the very object staged holds
setStaged(r, v) ==
  { [r EXCEPT !.display = v, !.pending = TRUE] }
    \cup (IF v = staged /\ ~r.pending THEN {r} ELSE {})

\* one update of the history queue at the render: <<history, ref, display>>
renderUpdate(h, ref, shown, u) ==
  CASE u.eager -> <<u.state, ref, shown>>
    [] ~u.eager /\ u.kind = "commit" ->
         <<commitUpdater(h, u.toCommit), ref, shown>>
    [] ~u.eager /\ u.kind = "undo" ->
         IF Len(h.past) = 0 THEN <<h, ref, shown>>
         ELSE <<undoUpdater(h), h.past[Len(h.past)], h.past[Len(h.past)]>>
    [] ~u.eager /\ u.kind = "redo" ->
         IF Len(h.future) = 0 THEN <<h, ref, shown>>
         ELSE <<redoUpdater(h), h.future[1], h.future[1]>>

RECURSIVE renderQueue(_, _, _, _)
renderQueue(h, ref, shown, queue) ==
  IF queue = <<>> THEN <<h, ref, shown>>
  ELSE \* the next update starts from what the one before it left
       LET n == renderUpdate(h, ref, shown, Head(queue))
       IN  renderQueue(n[1], n[2], n[3], Tail(queue))

\* the history cell after the first i updates of the running handler
historyAfter(i) ==
  renderQueue(history, stagedRef, run.display, SubSeq(run.queue, 1, i))[1]

BatchInit ==
  /\ \E initialState \in BatchValues :
       /\ useHistory(initialState)
       /\ run = Idle(initialState)
  /\ NoTimers

called(r) == [r EXCEPT !.calls = r.calls + 1, !.pc = "handler"]

queued(r, u) == [r EXCEPT !.queue = Append(r.queue, u), !.pending = TRUE]

BatchStage ==
  \E v \in BatchValues :
    /\ run.calls < MaxBatch
    /\ stagedRef' = v
    /\ run' \in setStaged(called(run), v)
    /\ op' = "stage" /\ arg' = v
    /\ UNCHANGED <<history, staged>>
    /\ UNCHANGED others

\* setHistory((h) => ...) of commit, with the update of staged done
BatchCommitHistory(r, v, toCommit) ==
  \/ /\ ~r.pending
     /\ \E eagerState \in {commitUpdater(history, toCommit)} :
          run' = IF eagerState = history THEN r
                 ELSE queued(r, Update("commit", r.calls, v, TRUE,
                                       eagerState, toCommit))
  \/ run' = queued(r, Update("commit", r.calls, v, FALSE, history, toCommit))

BatchCommit ==
  \E v \in BatchValues \cup {Undefined} :
    /\ run.calls < MaxBatch
    /\ Len(history.past) + Len(run.queue) < MaxPast
    /\ IF v # Undefined
         THEN /\ stagedRef' = v
              /\ \E r \in setStaged(called(run), v) :
                   BatchCommitHistory(r, v, toCommitOf(v, stagedRef))
         ELSE /\ UNCHANGED stagedRef
              /\ BatchCommitHistory(called(run), v, toCommitOf(v, stagedRef))
    /\ op' = "commit" /\ arg' = v
    /\ UNCHANGED <<history, staged>>
    /\ UNCHANGED others

BatchUndo ==
  /\ run.calls < MaxBatch
  /\ \/ /\ ~run.pending
        /\ IF Len(history.past) = 0
             THEN run' = called(run) /\ UNCHANGED stagedRef
             ELSE /\ stagedRef' = history.past[Len(history.past)]
                  /\ run' = queued([called(run) EXCEPT
                                      !.display = history.past[Len(history.past)]],
                                   Update("undo", run.calls + 1, Undefined, TRUE,
                                          undoUpdater(history), Undefined))
     \/ /\ run' = queued(called(run),
                         Update("undo", run.calls + 1, Undefined, FALSE,
                                history, Undefined))
        /\ UNCHANGED stagedRef
  /\ op' = "undo" /\ arg' = Undefined
  /\ UNCHANGED <<history, staged>>
  /\ UNCHANGED others

BatchRedo ==
  /\ run.calls < MaxBatch
  /\ \/ /\ ~run.pending
        /\ IF Len(history.future) = 0
             THEN run' = called(run) /\ UNCHANGED stagedRef
             ELSE /\ stagedRef' = history.future[1]
                  /\ run' = queued([called(run) EXCEPT
                                      !.display = history.future[1]],
                                   Update("redo", run.calls + 1, Undefined, TRUE,
                                          redoUpdater(history), Undefined))
     \/ /\ run' = queued(called(run),
                         Update("redo", run.calls + 1, Undefined, FALSE,
                                history, Undefined))
        /\ UNCHANGED stagedRef
  /\ op' = "redo" /\ arg' = Undefined
  /\ UNCHANGED <<history, staged>>
  /\ UNCHANGED others

BatchReset ==
  \E v \in BatchValues :
    /\ run.calls < MaxBatch
    /\ stagedRef' = v
    /\ \E r \in setStaged(called(run), v) :
         run' = queued(r, Update("reset", r.calls, v, TRUE,
                                 HistoryOf(<<>>, v, <<>>), Undefined))
    /\ op' = "reset" /\ arg' = v
    /\ UNCHANGED <<history, staged>>
    /\ UNCHANGED others

\* the handler has returned: React renders the component
BatchRender ==
  /\ run.pc = "handler"
  /\ \E n \in {renderQueue(history, stagedRef, run.display, run.queue)} :
       /\ history' = n[1]
       /\ stagedRef' = n[2]
       /\ staged' = n[3]
       /\ run' = Idle(n[3])
  /\ op' = "render" /\ arg' = Undefined
  /\ UNCHANGED others

BatchNext ==
  \/ BatchStage
  \/ BatchCommit
  \/ BatchUndo
  \/ BatchRedo
  \/ BatchReset
  \/ BatchRender

BatchSpec == BatchInit /\ [][BatchNext]_vars

(***************************************************************************)
(* The debounce wrapper the cropper puts around the hook (README, "Note on *)
(* event timing" and "Undo / Redo"): interaction events stage and restart  *)
(* a 500 ms timer whose expiry calls commit(); discrete actions, undo and  *)
(* redo cancel it first.  Time passes in steps of Delays while a timer is  *)
(* live, never beyond the instant the earliest timer is due.               *)
(***************************************************************************)
DebounceMs == 500

Delays == {250, 500}

\* the states a cropper stages and commits: one object literal, finite
\* numbers
CropperSnapshots ==
  { Obj(<< <<"x", Num(n)>>, <<"y", Num(0)>> >>) : n \in 0..2 }

Min(a, b) == IF a <= b THEN a ELSE b
Max(a, b) == IF a >= b THEN a ELSE b

\* clearTimeout that does nothing
cancelTimer_noop(ts) == ts

\* clearTimeout(timerRef.current): the ref holds the newest handle
cancelTimer(ts) == IF ts = <<>> THEN ts ELSE SubSeq(ts, 1, Len(ts) - 1)

\* an interaction that leaves a timer already running as it is
restartTimer_keepsOld(ts) == IF ts = <<>> THEN <<DebounceMs>> ELSE ts

\* clearTimeout + setTimeout(commit, 500)
restartTimer(ts) == Append(cancelTimer(ts), DebounceMs)

Interaction ==
  \E v \in CropperSnapshots :
    /\ Len(history.past) < MaxPast
    /\ stage(v)
    /\ timers' = restartTimer(timers)
    /\ idleMs' = 0
    /\ op' = "interact" /\ arg' = v
    /\ UNCHANGED <<run, search, cropper, helper>>

Elapse ==
  \E d \in Delays :
    /\ timers # <<>>
    /\ \A k \in 1..Len(timers) : timers[k] >= d
    /\ timers' = [k \in 1..Len(timers) |-> timers[k] - d]
    /\ idleMs' = Min(DebounceMs, idleMs + d)
    /\ UNCHANGED <<history, staged, stagedRef, op, arg, run, search, cropper,
                   helper>>

TimerFire ==
  \E k \in 1..Len(timers) :
    /\ timers[k] = 0
    /\ commit(Undefined)
    /\ timers' = SubSeq(timers, 1, k - 1) \o SubSeq(timers, k + 1, Len(timers))
    /\ op' = "timer" /\ arg' = Undefined
    /\ UNCHANGED <<run, idleMs, search, cropper, helper>>

DiscreteAction ==
  \E v \in CropperSnapshots :
    /\ Len(history.past) < MaxPast
    /\ timers' = cancelTimer(timers)
    /\ commit(v)
    /\ op' = "discrete" /\ arg' = v
    /\ UNCHANGED <<run, idleMs, search, cropper, helper>>

\* undo that leaves the pending timer running
UndoPressed_keepsTimer ==
  /\ UNCHANGED timers
  /\ undo
  /\ op' = "undo" /\ arg' = Undefined
  /\ UNCHANGED <<run, idleMs, search, cropper, helper>>

UndoPressed ==
  /\ timers' = cancelTimer(timers)
  /\ undo
  /\ op' = "undo" /\ arg' = Undefined
  /\ UNCHANGED <<run, idleMs, search, cropper, helper>>

RedoPressed ==
  /\ timers' = cancelTimer(timers)
  /\ redo
  /\ op' = "redo" /\ arg' = Undefined
  /\ UNCHANGED <<run, idleMs, search, cropper, helper>>

DebounceInit ==
  /\ \E initialState \in CropperSnapshots : useHistory(initialState)
  /\ run = NoRun
  /\ NoTimers

DebounceNext ==
  \/ Interaction
  \/ Elapse
  \/ TimerFire
  \/ DiscreteAction
  \/ UndoPressed
  \/ RedoPressed

DebounceSpec == DebounceInit /\ [][DebounceNext]_vars

(***************************************************************************)
(* Numbers of the geometry helpers.                                        *)
(* A JavaScript number is modelled in fixed point: the integer n stands    *)
(* for n / One.  Products and quotients are exact integer results rounded  *)
(* towards zero, computed without leaving 32 bits.                         *)
(***************************************************************************)
One == 1000000

\* a whole number of pixels or degrees
Fix(n) == n * One

Abs(a) == IF a < 0 THEN 0 - a ELSE a
Sign(a) == IF a < 0 THEN 0 - 1 ELSE 1

\* <<q, r>> with a * b = q * c + r and 0 <= r < c, for a, b >= 0 and c > 0,
\* taking b one digit of radix R at a time; (2 * R - 1) * c stays in 32 bits
RECURSIVE MulDivModR(_, _, _, _)
MulDivModR(a, b, c, R) ==
  IF b = 0 THEN <<0, 0>>
  ELSE LET h  == MulDivModR(a, b \div R, c, R)
           d  == b % R
           r3 == R * h[2] + (a % c) * d
       IN  <<R * h[1] + (a \div c) * d + (r3 \div c), r3 % c>>

MulDivMod(a, b, c) ==
  MulDivModR(a, b, c, IF c <= One THEN 1000
                      ELSE IF c <= 100 * One THEN 10
                      ELSE IF c <= 250 * One THEN 4 ELSE 2)

\* a * b / c
MulDiv(a, b, c) ==
  Sign(a) * Sign(b) * Sign(c)
    * (IF Abs(a) >= Abs(b) THEN MulDivMod(Abs(a), Abs(b), Abs(c))[1]
                           ELSE MulDivMod(Abs(b), Abs(a), Abs(c))[1])

\* Infinity, above every length the model handles
Infinity == 2000000000

\* x * y and x / y of two numbers; a quotient beyond the lengths the model
\* handles is Infinity or -Infinity, and so is x / 0 for x # 0
FMul(x, y) == MulDiv(x, y, One)
FDiv(x, y) ==
  IF y = 0 THEN Sign(x) * Infinity
  ELSE IF Abs(x) \div Abs(y) >= Infinity \div One
    THEN Sign(x) * Sign(y) * Infinity
    ELSE MulDiv(x, One, y)

\* the literal 1e-9, below the resolution 1 / One: x < 1e-9 and x > 1e-9
LtEps(x) == x * 1000 < 1
GtEps(x) == x * 1000 > 1

\* degrees * (Math.PI / 180), for degrees >= 0
ToRadians(deg) == FMul(deg, 3141593) \div 180

\* Math.cos and Math.sin on [0, PI/4], by their power series (CosFirst,
\* SinFirst).  The powers of x are handed on as arguments, so each is
\* computed once.
CosSeries(x2, x4, x8) ==
  One - (x2 \div 2) + (x4 \div 24) - (FMul(x4, x2) \div 720) + (x8 \div 40320)
      - (FMul(x8, x2) \div 3628800)
CosSquares(x2, x4) == CosSeries(x2, x4, FMul(x4, x4))
CosSquare(x2) == CosSquares(x2, FMul(x2, x2))
CosFirst(x) == CosSquare(FMul(x, x))

SinSeries(x, x2, x3, x5, x7) ==
  x - (x3 \div 6) + (x5 \div 120) - (x7 \div 5040) + (FMul(x7, x2) \div 362880)
SinFifth(x, x2, x3, x5) == SinSeries(x, x2, x3, x5, FMul(x5, x2))
SinCube(x, x2, x3) == SinFifth(x, x2, x3, FMul(x3, x2))
SinSquare(x, x2) == SinCube(x, x2, FMul(x2, x))
SinFirst(x) == SinSquare(x, FMul(x, x))

\* Math.PI / 2 and Math.PI / 4
HalfPi == 3141593 \div 2
QuarterPi == 3141593 \div 4

\* on [0, PI/2]: beyond PI/4, cos x = sin(PI/2 - x) and sin x = cos(PI/2 - x)
CosAbs(x) == IF x <= QuarterPi THEN CosFirst(x) ELSE SinFirst(HalfPi - x)
SinAbs(x) == IF x <= QuarterPi THEN SinFirst(x) ELSE CosFirst(HalfPi - x)

\* Math.cos and Math.sin on [-PI/2, PI/2]: cos is even, sin is odd
Cos(x) == CosAbs(Abs(x))
Sin(x) == Sign(x) * SinAbs(Abs(x))

(***************************************************************************)
(* The geometry helpers (src/components/helpers).  A const of the code     *)
(* that is used more than once is an argument of the operator that models  *)
(* the statements after it.                                                *)
(***************************************************************************)
Size(w, h) == [width |-> w, height |-> h]

\* a Size, as opposed to null
IsSize(c) == "width" \in DOMAIN c

\* return { width: s * W, height: s * H }
cropSizeScaled(W, H, s) == Size(FMul(s, W), FMul(s, H))

\* cropSizeTrig that takes the larger of the two scale factors
cropSizeTrig_max(W, H, cosT, sinT) ==
  cropSizeScaled(W, H, Max(FDiv(W, FMul(W, cosT) + FMul(H, sinT)),
                           FDiv(H, FMul(W, sinT) + FMul(H, cosT))))

\* from const s on
cropSizeTrig(W, H, cosT, sinT) ==
  cropSizeScaled(W, H, Min(FDiv(W, FMul(W, cosT) + FMul(H, sinT)),
                           FDiv(H, FMul(W, sinT) + FMul(H, cosT))))

\* from the test of theta on
cropSizeTheta(W, H, theta) ==
  IF LtEps(theta) THEN Size(W, H)
  ELSE cropSizeTrig(W, H, Cos(theta), Sin(theta))

\* computeCropSize that takes an image for empty only when both W and H
\* are 0
computeCropSize_bothEmpty(W, H, rotationDeg) ==
  IF W = 0 /\ H = 0 THEN Size(0, 0)
  ELSE cropSizeTheta(W, H, ToRadians(Abs(rotationDeg)))

computeCropSize(W, H, rotationDeg) ==
  IF W = 0 \/ H = 0 THEN Size(0, 0)
  ELSE cropSizeTheta(W, H, ToRadians(Abs(rotationDeg)))

\* the largest half-width that fits with half-height hh
maxHWFor(hh, hiW, hiH, cosT, sinT) ==
  Min(IF GtEps(cosT) THEN FDiv(hiW - FMul(hh, sinT), cosT) ELSE Infinity,
      IF GtEps(sinT) THEN FDiv(hiH - FMul(hh, cosT), sinT) ELSE Infinity)

\* the largest half-height that fits with half-width hw
maxHHFor(hw, hiW, hiH, cosT, sinT) ==
  Min(IF GtEps(sinT) THEN FDiv(hiW - FMul(hw, cosT), sinT) ELSE Infinity,
      IF GtEps(cosT) THEN FDiv(hiH - FMul(hw, sinT), cosT) ELSE Infinity)

\* the second pass: clamp hh for the final hw, and return
clampHeight(hw, hh, hiW, hiH, mhh, cosT, sinT) ==
  Size(hw * 2, Max(Min(hh, maxHHFor(hw, hiW, hiH, cosT, sinT)), mhh) * 2)

\* clampWidth that leaves hw as requested when maxHW allows the minimum
clampWidth_noCap(hw, hh, hiW, hiH, mhw, mhh, cosT, sinT, maxHW) ==
  IF maxHW < mhw
    THEN clampHeight(mhw,
                     Max(Min(hh, maxHHFor(mhw, hiW, hiH, cosT, sinT)), mhh),
                     hiW, hiH, mhh, cosT, sinT)
    ELSE clampHeight(hw, hh, hiW, hiH, mhh, cosT, sinT)

\* from the test of maxHW on
clampWidth(hw, hh, hiW, hiH, mhw, mhh, cosT, sinT, maxHW) ==
  IF maxHW < mhw
    THEN clampHeight(mhw,
                     Max(Min(hh, maxHHFor(mhw, hiW, hiH, cosT, sinT)), mhh),
                     hiW, hiH, mhh, cosT, sinT)
    ELSE clampHeight(Min(hw, maxHW), hh, hiW, hiH, mhh, cosT, sinT)

\* the rotated branch, from let maxHW on
clampRotated(hw, hh, hiW, hiH, mhw, mhh, cosT, sinT) ==
  clampWidth(hw, hh, hiW, hiH, mhw, mhh, cosT, sinT,
             maxHWFor(hh, hiW, hiH, cosT, sinT))

\* from let hw, let hh on
clampHalves(hw, hh, hiW, hiH, mhw, mhh, theta) ==
  IF LtEps(theta)
    THEN Size(Min(hw, hiW) * 2, Min(hh, hiH) * 2)
    ELSE clampRotated(hw, hh, hiW, hiH, mhw, mhh, Cos(theta), Sin(theta))

\* clampCropDims that starts from the requested size, not raised to the
\* minimums
clampCropDims_noMin(cropW, cropH, imgW, imgH, rotationDeg, minW, minH) ==
  clampHalves(cropW \div 2, cropH \div 2,
              imgW \div 2, imgH \div 2, minW \div 2, minH \div 2,
              ToRadians(Abs(rotationDeg)))

clampCropDims(cropW, cropH, imgW, imgH, rotationDeg, minW, minH) ==
  clampHalves(Max(cropW \div 2, minW \div 2), Max(cropH \div 2, minH \div 2),
              imgW \div 2, imgH \div 2, minW \div 2, minH \div 2,
              ToRadians(Abs(rotationDeg)))

\* c.width >= minW && c.height >= minH
feasible(c, minW, minH) == c.width >= minW /\ c.height >= minH

\* searchStep that narrows the wrong end: hi on a feasible mid, lo otherwise
searchStep_swapped(lo, hi, imgW, imgH, customCrop, minW, minH) ==
  LET mid == (lo + hi) \div 2
  IN  IF feasible(IF IsSize(customCrop)
                    THEN clampCropDims(customCrop.width, customCrop.height,
                                       imgW, imgH, mid, minW, minH)
                    ELSE computeCropSize(imgW, imgH, mid),
                  minW, minH)
        THEN <<lo, mid>> ELSE <<mid, hi>>

\* one iteration of the binary search: the new <<lo, hi>>
searchStep(lo, hi, imgW, imgH, customCrop, minW, minH) ==
  LET mid == (lo + hi) \div 2
  IN  IF feasible(IF IsSize(customCrop)
                    THEN clampCropDims(customCrop.width, customCrop.height,
                                       imgW, imgH, mid, minW, minH)
                    ELSE computeCropSize(imgW, imgH, mid),
                  minW, minH)
        THEN <<mid, hi>> ELSE <<lo, mid>>

Iterations == 50

\* the for loop from iteration i on, lohi being <<lo, hi>>: the final
\* <<lo, hi>>.  An iteration that leaves <<lo, hi>> as it is does so again
\* in every later iteration, which are then skipped.
RECURSIVE searchLoop(_, _, _, _, _, _, _)
RECURSIVE searchFrom(_, _, _, _, _, _, _, _)
searchFrom(i, lohi, next, imgW, imgH, customCrop, minW, minH) ==
  IF next = lohi THEN lohi
  ELSE searchLoop(i + 1, next, imgW, imgH, customCrop, minW, minH)

searchLoop(i, lohi, imgW, imgH, customCrop, minW, minH) ==
  IF i >= Iterations THEN lohi
  ELSE searchFrom(i, lohi,
                  searchStep(lohi[1], lohi[2],
                             imgW, imgH, customCrop, minW, minH),
                  imgW, imgH, customCrop, minW, minH)

\* roundTenth that returns lo as it is
roundTenth_noRound(lo) == lo

\* Math.round(lo * 10) / 10
roundTenth(lo) == ((lo * 10 + One \div 2) \div One) * (One \div 10)

findMaxRotation(imgW, imgH, customCrop, minW, minH) ==
  roundTenth(searchLoop(0, <<0, Fix(45)>>,
                        imgW, imgH, customCrop, minW, minH)[1])

(***************************************************************************)
(* clampOffset (src/components/helpers/clampOffset.ts).  The loop state is *)
(* <<cx, cy, ok>>.                                                         *)
(***************************************************************************)
Point(x, y) == [x |-> x, y |-> y]

\* the literal 0.5
Half == One \div 2

\* rotationDeg * (Math.PI / 180), for either sign
Radians(deg) == Sign(deg) * ToRadians(Abs(deg))

\* excessOf that yields half of the excess
excessOf_half(u, hi) == (IF u > 0 THEN u - hi ELSE u + hi) \div 2

\* u > 0 ? u - hiW : u + hiW
excessOf(u, hi) == IF u > 0 THEN u - hi ELSE u + hi

\* correctU that moves cy the wrong way
correctU_sinSign(c, u, hiW, cosT, sinT) ==
  IF Abs(u) > hiW + Half
    THEN <<c[1] - FMul(excessOf(u, hiW), cosT),
           c[2] + FMul(excessOf(u, hiW), sinT), FALSE>>
    ELSE c

\* if (Math.abs(u) > hiW + 0.5) { ... }
correctU(c, u, hiW, cosT, sinT) ==
  IF Abs(u) > hiW + Half
    THEN <<c[1] - FMul(excessOf(u, hiW), cosT),
           c[2] - FMul(excessOf(u, hiW), sinT), FALSE>>
    ELSE c

\* if (Math.abs(v) > hiH + 0.5) { ... }
correctV(c, v, hiH, cosT, sinT) ==
  IF Abs(v) > hiH + Half
    THEN <<c[1] + FMul(excessOf(v, hiH), sinT),
           c[2] - FMul(excessOf(v, hiH), cosT), FALSE>>
    ELSE c

\* cornerUV that tests u against hiH and v against hiW
cornerUV_swappedBounds(c, u, v, hiW, hiH, cosT, sinT) ==
  correctV(correctU(c, u, hiH, cosT, sinT), v, hiW, cosT, sinT)

\* the two tests of a corner whose u and v are computed
cornerUV(c, u, v, hiW, hiH, cosT, sinT) ==
  correctV(correctU(c, u, hiW, cosT, sinT), v, hiH, cosT, sinT)

\* from const u on, the corner being at <<px, py>>
cornerAt(c, px, py, hiW, hiH, cosT, sinT) ==
  cornerUV(c, FMul(px, cosT) + FMul(py, sinT),
           FMul(0 - px, sinT) + FMul(py, cosT), hiW, hiH, cosT, sinT)

\* the body of for (const [dx, dy] of corners)
corner(c, dx, dy, hiW, hiH, cosT, sinT) ==
  cornerAt(c, c[1] + dx, c[2] + dy, hiW, hiH, cosT, sinT)

\* one iteration of the outer loop: ok = true, then the four corners in
\* the order of the array
offsetPass(cx, cy, hw, hh, hiW, hiH, cosT, sinT) ==
  corner(corner(corner(corner(<<cx, cy, TRUE>>,
                              0 - hw, 0 - hh, hiW, hiH, cosT, sinT),
                       hw, 0 - hh, hiW, hiH, cosT, sinT),
                0 - hw, hh, hiW, hiH, cosT, sinT),
         hw, hh, hiW, hiH, cosT, sinT)

OffsetIterations == 8

\* the outer loop from iteration iter on: the final <<cx, cy>>
RECURSIVE offsetLoop(_, _, _, _, _, _, _, _, _)
RECURSIVE offsetFrom(_, _, _, _, _, _, _, _)
offsetFrom(iter, next, hw, hh, hiW, hiH, cosT, sinT) ==
  IF next[3] THEN <<next[1], next[2]>>
  ELSE offsetLoop(iter + 1, next[1], next[2], hw, hh, hiW, hiH, cosT, sinT)

offsetLoop(iter, cx, cy, hw, hh, hiW, hiH, cosT, sinT) ==
  IF iter >= OffsetIterations THEN <<cx, cy>>
  ELSE offsetFrom(iter, offsetPass(cx, cy, hw, hh, hiW, hiH, cosT, sinT),
                  hw, hh, hiW, hiH, cosT, sinT)

\* return { x: cx, y: cy }
offsetPoint(c) == Point(c[1], c[2])

\* from const cosT on
clampOffsetTheta(ox, oy, cropW, cropH, imgW, imgH, theta) ==
  offsetPoint(offsetLoop(0, ox, oy, cropW \div 2, cropH \div 2,
                         imgW \div 2, imgH \div 2, Cos(theta), Sin(theta)))

clampOffset(ox, oy, cropW, cropH, imgW, imgH, rotationDeg) ==
  clampOffsetTheta(ox, oy, cropW, cropH, imgW, imgH, Radians(rotationDeg))

(***************************************************************************)
(* findMaxRotation run one loop iteration at a time, for each of a set of  *)
(* arguments (pixels).                                                     *)
(***************************************************************************)
SearchImages == { <<100, 100>>, <<400, 100>>, <<100, 150>>, <<0, 100>> }
SearchMins   == { <<0, 0>>, <<20, 20>>, <<20, 90>>, <<90, 90>> }
SearchCrops  == { Null, Size(Fix(80), Fix(80)), Size(Fix(100), Fix(60)) }

hookVars ==
  <<history, staged, stagedRef, op, arg, run, timers, idleMs, cropper, helper>>

SearchInit ==
  /\ useHistory(Null)
  /\ run = NoRun
  /\ timers = <<>>
  /\ idleMs = 0
  /\ cropper = Unmounted
  /\ helper = NoHelper
  /\ \E img \in SearchImages, min \in SearchMins, crop \in SearchCrops :
       search = [pc |-> "loop",
                 imgW |-> Fix(img[1]), imgH |-> Fix(img[2]),
                 customCrop |-> crop,
                 minW |-> Fix(min[1]), minH |-> Fix(min[2]),
                 lo |-> 0, hi |-> Fix(45), i |-> 0, result |-> 0]

SearchIterate ==
  /\ search.pc = "loop"
  /\ search.i < Iterations
  /\ \E n \in {searchStep(search.lo, search.hi, search.imgW, search.imgH,
                          search.customCrop, search.minW, search.minH)} :
       search' = [search EXCEPT !.lo = n[1], !.hi = n[2], !.i = @ + 1]
  /\ UNCHANGED hookVars

SearchReturn ==
  /\ search.pc = "loop"
  /\ search.i >= Iterations
  /\ search' = [search EXCEPT !.pc = "done", !.result = roundTenth(search.lo)]
  /\ UNCHANGED hookVars

SearchNext ==
  \/ SearchIterate
  \/ SearchReturn

SearchSpec == SearchInit /\ [][SearchNext]_vars

(***************************************************************************)
(* computeCropSize, clampCropDims and clampOffset called on each of a set  *)
(* of arguments (pixels and degrees; rotations beyond the slider's 45      *)
(* degrees included).  clampOffset runs one iteration of its outer loop    *)
(* per step and is then called again on the offset it returned.            *)
(***************************************************************************)
HelperSizes     == { 0, 1, 100, 150 }
HelperImages    == { <<100, 100>>, <<150, 100>> }
HelperCrops     ==
  { <<10, 10>>, <<80, 80>>, <<100, 60>>, <<20, 200>>, <<300, 300>> }
HelperMins      == { <<0, 0>>, <<20, 20>>, <<20, 90>>, <<90, 90>> }
HelperRotations ==
  { 0, Fix(1), Fix(10), Fix(0 - 30), Fix(45), Fix(60), Fix(90) }
OffsetCrops     == { <<80, 80>>, <<60, 40>>, <<120, 50>>, <<200, 200>> }
OffsetStarts    == { <<0, 0>>, <<30, 0 - 5>>, <<0 - 100, 300>>, <<300, 300>> }
OffsetRotations == { 0, Fix(10), Fix(0 - 30), Fix(45), Fix(0 - 45) }

computeCropSizeCalls ==
  { [pc |-> "call", fn |-> "computeCropSize",
     W |-> Fix(W), H |-> Fix(H), rotationDeg |-> r, result |-> Null] :
    W \in HelperSizes, H \in HelperSizes, r \in HelperRotations }

clampCropDimsCalls ==
  { [pc |-> "call", fn |-> "clampCropDims",
     cropW |-> Fix(crop[1]), cropH |-> Fix(crop[2]),
     imgW |-> Fix(img[1]), imgH |-> Fix(img[2]), rotationDeg |-> r,
     minW |-> Fix(min[1]), minH |-> Fix(min[2]), result |-> Null] :
    crop \in HelperCrops, img \in HelperImages, r \in HelperRotations,
    min \in HelperMins }

\* clampOffset entered: cx = ox, cy = oy, iter = 0.  first is the earlier
\* call (its ox, oy and result) when ox and oy are the offset it returned.
clampOffsetCall(ox, oy, cropW, cropH, imgW, imgH, rotationDeg, first) ==
  [pc |-> "loop", fn |-> "clampOffset", ox |-> ox, oy |-> oy,
   cropW |-> cropW, cropH |-> cropH, imgW |-> imgW, imgH |-> imgH,
   rotationDeg |-> rotationDeg,
   cx |-> ox, cy |-> oy, iter |-> 0, ok |-> FALSE,
   first |-> first, result |-> Null]

\* the crops clampOffset is called with for an image and a rotation: the
\* fixed ones, and the effective crop when no crop is stored
offsetCropsFor(imgW, imgH, r) ==
  { Size(Fix(crop[1]), Fix(crop[2])) : crop \in OffsetCrops }
    \cup { computeCropSize(imgW, imgH, r) }

clampOffsetCallsFor(imgW, imgH, r) ==
  { clampOffsetCall(Fix(o[1]), Fix(o[2]), crop.width, crop.height,
                    imgW, imgH, r, Null) :
    o \in OffsetStarts, crop \in offsetCropsFor(imgW, imgH, r) }

clampOffsetCalls ==
  UNION { clampOffsetCallsFor(Fix(img[1]), Fix(img[2]), r) :
          img \in HelperImages, r \in OffsetRotations }

\* what the helpers leave alone
helperFrame ==
  <<history, staged, stagedRef, op, arg, run, timers, idleMs, search, cropper>>

HelperInit ==
  /\ useHistory(Null)
  /\ run = NoRun
  /\ timers = <<>>
  /\ idleMs = 0
  /\ search = NoSearch
  /\ cropper = Unmounted
  /\ helper \in computeCropSizeCalls \cup clampCropDimsCalls
                 \cup clampOffsetCalls

ComputeCropSizeCall ==
  /\ helper.pc = "call" /\ helper.fn = "computeCropSize"
  /\ helper' = [helper EXCEPT
                  !.pc = "done",
                  !.result = computeCropSize(helper.W, helper.H,
                                             helper.rotationDeg)]
  /\ UNCHANGED helperFrame

ClampCropDimsCall ==
  /\ helper.pc = "call" /\ helper.fn = "clampCropDims"
  /\ helper' = [helper EXCEPT
                  !.pc = "done",
                  !.result = clampCropDims(helper.cropW, helper.cropH,
                                           helper.imgW, helper.imgH,
                                           helper.rotationDeg,
                                           helper.minW, helper.minH)]
  /\ UNCHANGED helperFrame

\* one iteration of the outer loop of clampOffset that did not break
OffsetIterate ==
  /\ helper.pc = "loop"
  /\ helper.iter < OffsetIterations /\ ~helper.ok
  /\ \E n \in {offsetPass(helper.cx, helper.cy,
                           helper.cropW \div 2, helper.cropH \div 2,
                           helper.imgW \div 2, helper.imgH \div 2,
                           Cos(Radians(helper.rotationDeg)),
                           Sin(Radians(helper.rotationDeg)))} :
       helper' = [helper EXCEPT !.cx = n[1], !.cy = n[2], !.ok = n[3],
                                !.iter = @ + 1]
  /\ UNCHANGED helperFrame

\* the loop left by break or by its bound, and the return
OffsetReturn ==
  /\ helper.pc = "loop"
  /\ helper.ok \/ helper.iter >= OffsetIterations
  /\ helper' = [helper EXCEPT !.pc = "done",
                              !.result = Point(helper.cx, helper.cy)]
  /\ UNCHANGED helperFrame

\* clampOffset called on the offset it returned, the other arguments kept
OffsetAgain ==
  /\ helper.pc = "done" /\ helper.fn = "clampOffset"
  /\ helper.first = Null
  /\ helper' = clampOffsetCall(helper.result.x, helper.result.y,
                               helper.cropW, helper.cropH,
                               helper.imgW, helper.imgH,
                               helper.rotationDeg,
                               [ox |-> helper.ox, oy |-> helper.oy,
                                result |-> helper.result])
  /\ UNCHANGED helperFrame

HelperNext ==
  \/ ComputeCropSizeCall
  \/ ClampCropDimsCall
  \/ OffsetIterate
  \/ OffsetReturn
  \/ OffsetAgain

HelperSpec == HelperInit /\ [][HelperNext]_vars

(***************************************************************************)
(* The ImageCropper component (src/components/ImageCropper.tsx).           *)
(* Lengths and angles are fixed-point numbers; baseRotation is a whole     *)
(* number of degrees.  Every action is an event handler together with the  *)
(* render that follows it and the effects of that render.                  *)
(***************************************************************************)
\* the component as mounted with the given props, after its first render
ImageCropper(minCropWidth, minCropHeight) ==
  [mounted |-> TRUE,
   imageSrc |-> FALSE,
   rotation |-> 0,
   displaySize |-> Size(0, 0),
   cropSize |-> Null,
   cropOffset |-> Point(0, 0),
   baseRotation |-> 0,
   minCropWidth |-> minCropWidth,
   minCropHeight |-> minCropHeight,
   maxRotation |-> Fix(45),
   events |-> 0]

effectiveDims(c) ==
  IF c.baseRotation = 90 \/ c.baseRotation = 270
    THEN Size(c.displaySize.height, c.displaySize.width)
    ELSE c.displaySize

\* effectiveCrop that passes the stored cropSize on as it is
effectiveCrop_unclamped(c) ==
  IF IsSize(c.cropSize)
    THEN c.cropSize
    ELSE computeCropSize(effectiveDims(c).width, effectiveDims(c).height,
                         c.rotation)

effectiveCrop(c) ==
  IF IsSize(c.cropSize)
    THEN clampCropDims(c.cropSize.width, c.cropSize.height,
                       effectiveDims(c).width, effectiveDims(c).height,
                       c.rotation, c.minCropWidth, c.minCropHeight)
    ELSE computeCropSize(effectiveDims(c).width, effectiveDims(c).height,
                         c.rotation)

\* the value the maxRotation memo computes
maxRotationOf(c) ==
  IF effectiveDims(c).width > 0 /\ effectiveDims(c).height > 0
    THEN findMaxRotation(effectiveDims(c).width, effectiveDims(c).height,
                         c.cropSize, c.minCropWidth, c.minCropHeight)
    ELSE Fix(45)

\* Math.max(-maxRotation, Math.min(maxRotation, prev))
clampRotation(prev, maxRotation) == Max(0 - maxRotation, Min(maxRotation, prev))

\* the dependencies of the maxRotation memo
maxRotationDeps(c) ==
  <<effectiveDims(c), c.cropSize, c.minCropWidth, c.minCropHeight>>

\* the value of the maxRotation memo in the render of n that follows the
\* render of c: recomputed when a dependency changed
maxRotationMemo(c, n) ==
  IF maxRotationDeps(n) = maxRotationDeps(c)
    THEN c.maxRotation ELSE maxRotationOf(n)

\* the effect on [maxRotation], given the memo's value mr
clampEffect(c, n, mr) ==
  [n EXCEPT !.maxRotation = mr,
            !.rotation = IF mr = c.maxRotation THEN @ ELSE clampRotation(@, mr)]

\* the render without the effect that clamps rotation
Render_noClamp(c, n) == [n EXCEPT !.maxRotation = maxRotationMemo(c, n)]

\* the render of the state n the handler left, coming from the rendered
\* state c, and the effects of that render
Render(c, n) == clampEffect(c, n, maxRotationMemo(c, n))

can90(c) ==
  LET newBase == (c.baseRotation + 90) % 360
      swapped == newBase = 90 \/ newBase = 270
      w == IF swapped THEN c.displaySize.height ELSE c.displaySize.width
      h == IF swapped THEN c.displaySize.width ELSE c.displaySize.height
  IN  w >= c.minCropWidth /\ h >= c.minCropHeight

\* the rendered sizes of the <img>, the minimum props, the slider values,
\* the pointer positions relative to the workspace centre and the pointer
\* deltas of a move (pixels, degrees)
DisplaySizes == { <<100, 100>>, <<150, 100>> }
CropperMins  == { <<20, 20>>, <<90, 90>> }
SliderValues == { Fix(0 - 10), Fix(10) }
Pointers     == { <<50, 50>>, <<0 - 5, 30>> }
MoveDeltas   == { <<30, 0 - 5>> }

\* the cropper handles this many events after it is mounted
MaxEvents == 5

\* the cropper is mounted and takes one more event
Ready == cropper.mounted /\ cropper.events < MaxEvents

\* an event: the handler leaves n, which is rendered
Handle(c, n) == Render(c, [n EXCEPT !.events = c.events + 1])

\* what the cropper's handlers leave alone
cropperFrame ==
  <<history, staged, stagedRef, run, timers, idleMs, search, helper>>

CropperInit ==
  /\ useHistory(Null)
  /\ run = NoRun
  /\ timers = <<>>
  /\ idleMs = 0
  /\ search = NoSearch
  /\ helper = NoHelper
  /\ \E min \in CropperMins : cropper = ImageCropper(Fix(min[1]), Fix(min[2]))

\* handleUpload with a file chosen
Upload ==
  /\ Ready
  /\ cropper' = Handle(cropper,
                       [cropper EXCEPT !.imageSrc = TRUE,
                                       !.rotation = 0,
                                       !.baseRotation = 0,
                                       !.cropSize = Null,
                                       !.cropOffset = Point(0, 0)])
  /\ op' = "upload" /\ arg' = Undefined
  /\ UNCHANGED cropperFrame

\* syncDisplaySize, from onLoad or the ResizeObserver of the <img>
SyncDisplaySize ==
  /\ Ready /\ cropper.imageSrc
  /\ \E d \in DisplaySizes :
       cropper' = Handle(cropper,
                         [cropper EXCEPT
                            !.displaySize = Size(Fix(d[1]), Fix(d[2]))])
  /\ op' = "syncDisplaySize" /\ arg' = Undefined
  /\ UNCHANGED cropperFrame

\* handleMouseMove of a corner drag, the pointer at <<mx, my>> once mirrored
\* for the corner; arg is the desired size
CornerResize ==
  /\ Ready /\ cropper.imageSrc /\ cropper.displaySize.width > 0
  /\ \E m \in Pointers :
       LET desiredW == Max(Fix(m[1]) * 2, Fix(20))
           desiredH == Max(Fix(m[2]) * 2, Fix(20))
       IN  /\ cropper' =
                Handle(cropper,
                       [cropper EXCEPT
                          !.cropSize =
                             clampCropDims(desiredW, desiredH,
                                           effectiveDims(cropper).width,
                                           effectiveDims(cropper).height,
                                           cropper.rotation,
                                           cropper.minCropWidth,
                                           cropper.minCropHeight),
                          !.cropOffset = Point(0, 0)])
           /\ arg' = Size(desiredW, desiredH)
  /\ op' = "cornerResize"
  /\ UNCHANGED cropperFrame

\* the stored cropOffset as the overlay shows it
effectiveOffset(c) ==
  clampOffset(c.cropOffset.x, c.cropOffset.y,
              effectiveCrop(c).width, effectiveCrop(c).height,
              effectiveDims(c).width, effectiveDims(c).height, c.rotation)

\* a drag of the move handle: handleMoveMouseDown, then handleMouseMove with
\* the pointer delta dragged away from where it went down
MoveDrag ==
  /\ Ready /\ cropper.imageSrc /\ cropper.displaySize.width > 0
  /\ \E dragged \in MoveDeltas, crop \in {effectiveCrop(cropper)} :
       cropper' =
         Handle(cropper,
                [cropper EXCEPT
                   !.cropOffset =
                      clampOffset(cropper.cropOffset.x + Fix(dragged[1]),
                                  cropper.cropOffset.y + Fix(dragged[2]),
                                  crop.width, crop.height,
                                  effectiveDims(cropper).width,
                                  effectiveDims(cropper).height,
                                  cropper.rotation)])
  /\ op' = "moveDrag" /\ arg' = Undefined
  /\ UNCHANGED cropperFrame

\* handleRotationChange: the range input delivers a value between its min
\* and max
RotationChange ==
  /\ Ready /\ cropper.imageSrc
  /\ \E newRot \in SliderValues :
       /\ 0 - cropper.maxRotation <= newRot
       /\ newRot <= cropper.maxRotation
       /\ cropper' = Handle(cropper, [cropper EXCEPT !.rotation = newRot])
  /\ op' = "rotationChange" /\ arg' = Undefined
  /\ UNCHANGED cropperFrame

\* the updater (prev) => (prev + degrees) % 360 of baseRotation
turnBy(prev, degrees) == (prev + degrees) % 360

\* handleRotate90 that leaves cropOffset as it is
Rotate90_keepsOffset ==
  /\ Ready /\ cropper.imageSrc /\ can90(cropper)
  /\ cropper' = Handle(cropper,
                       [cropper EXCEPT !.baseRotation = turnBy(@, 90),
                                       !.rotation = 0,
                                       !.cropSize = Null])
  /\ op' = "rotate90" /\ arg' = Undefined
  /\ UNCHANGED cropperFrame

Rotate90 ==
  /\ Ready /\ cropper.imageSrc /\ can90(cropper)
  /\ cropper' = Handle(cropper,
                       [cropper EXCEPT !.baseRotation = turnBy(@, 90),
                                       !.rotation = 0,
                                       !.cropSize = Null,
                                       !.cropOffset = Point(0, 0)])
  /\ op' = "rotate90" /\ arg' = Undefined
  /\ UNCHANGED cropperFrame

Rotate180 ==
  /\ Ready /\ cropper.imageSrc
  /\ cropper' = Handle(cropper,
                       [cropper EXCEPT !.baseRotation = turnBy(@, 180),
                                       !.rotation = 0,
                                       !.cropSize = Null,
                                       !.cropOffset = Point(0, 0)])
  /\ op' = "rotate180" /\ arg' = Undefined
  /\ UNCHANGED cropperFrame

\* the Reset Rotation button, rendered while a rotation is set
ResetRotation ==
  /\ Ready /\ cropper.imageSrc
  /\ cropper.rotation # 0 \/ cropper.baseRotation # 0
  /\ cropper' = Handle(cropper,
                       [cropper EXCEPT !.rotation = 0,
                                       !.baseRotation = 0,
                                       !.cropSize = Null,
                                       !.cropOffset = Point(0, 0)])
  /\ op' = "resetRotation" /\ arg' = Undefined
  /\ UNCHANGED cropperFrame

\* the Reset Crop button, rendered while a crop is set
ResetCrop ==
  /\ Ready /\ cropper.imageSrc
  /\ IsSize(cropper.cropSize) \/ cropper.cropOffset # Point(0, 0)
  /\ cropper' = Handle(cropper,
                       [cropper EXCEPT !.cropSize = Null,
                                       !.cropOffset = Point(0, 0)])
  /\ op' = "resetCrop" /\ arg' = Undefined
  /\ UNCHANGED cropperFrame

\* the parent renders the component with other minCropWidth, minCropHeight
SetMinimums ==
  /\ Ready
  /\ \E min \in CropperMins :
       /\ <<Fix(min[1]), Fix(min[2])>>
            # <<cropper.minCropWidth, cropper.minCropHeight>>
       /\ cropper' = Handle(cropper,
                            [cropper EXCEPT !.minCropWidth = Fix(min[1]),
                                            !.minCropHeight = Fix(min[2])])
  /\ op' = "setMinimums" /\ arg' = Undefined
  /\ UNCHANGED cropperFrame

CropperNext ==
  \/ Upload
  \/ SyncDisplaySize
  \/ CornerResize
  \/ MoveDrag
  \/ RotationChange
  \/ Rotate90
  \/ Rotate180
  \/ ResetRotation
  \/ ResetCrop
  \/ SetMinimums

CropperSpec == CropperInit /\ [][CropperNext]_vars

(***************************************************************************)
(* Vocabulary of the properties                                            *)
(***************************************************************************)
\* structural (deep) equality of two values: same kind and, for objects,
\* the same keys with the same values, whatever the insertion order
PropSet(v) == { v.props[i] : i \in 1..Len(v.props) }
DeepEqual(a, b) == a.kind = b.kind /\ PropSet(a) = PropSet(b)

\* the value a commit call is about: its argument, or the staged value
\* when it is called without one
ValueOfCommit(a, ref) == IF a = Undefined THEN ref ELSE a

Pushed(h, v) == HistoryOf(Append(h.past, h.present), v, <<>>)

\* past ++ [present] ++ future
Timeline(h) == h.past \o <<h.present>> \o h.future

\* C1: a commit of a value that is not deep-equal to present appends the
\* old present to past, makes the value present and empties future.
C1_CommitPushes ==
  [][(op' = "commit"
        /\ ~DeepEqual(ValueOfCommit(arg', stagedRef), history.present))
      => history' = Pushed(history, ValueOfCommit(arg', stagedRef))]_vars

\* C2: a commit of a value deep-equal to present (given, or staged) leaves
\* past, present and future as they are, and so canUndo and canRedo.
C2_CommitEqualIsNoOp ==
  [][(op' = "commit"
        /\ DeepEqual(ValueOfCommit(arg', stagedRef), history.present))
      => /\ history' = history
         /\ canUndo' = canUndo
         /\ canRedo' = canRedo]_vars

\* C3: stage(v) makes v the live state at once and leaves past, present
\* and future, hence canUndo and canRedo, unchanged.
C3_StageFrame ==
  [][op' = "stage"
      => /\ staged' = arg'
         /\ stagedRef' = arg'
         /\ history' = history
         /\ canUndo' = canUndo
         /\ canRedo' = canRedo]_vars

C3_Witness ==
  /\ op = "stage"
  /\ staged = arg
  /\ ~DeepEqual(staged, committed)
  /\ canUndo /\ canRedo

\* C4: commit writes its argument whenever one is given (anything but
\* undefined), after which state and committed are both deep-equal to it;
\* without an argument committed becomes deep-equal to the staged value.
C4_CommitWritesArgument ==
  [][op' = "commit"
      => IF arg' # Undefined
           THEN DeepEqual(staged', arg') /\ DeepEqual(committed', arg')
           ELSE DeepEqual(committed', stagedRef)]_vars

\* C5: undo changes nothing when past is empty; otherwise the last entry
\* of past becomes present, the old present goes to the front of future
\* and the staged state equals the new present.
C5_Undo ==
  [][op' = "undo"
      => IF history.past = <<>>
           THEN UNCHANGED <<history, staged, stagedRef>>
           ELSE /\ history'.past = SubSeq(history.past, 1, Len(history.past) - 1)
                /\ history'.present = history.past[Len(history.past)]
                /\ history'.future = <<history.present>> \o history.future
                /\ staged' = history'.present
                /\ stagedRef' = history'.present]_vars

C5_Witness ==
  /\ op = "undo"
  /\ Len(history.future) >= 2
  /\ canUndo
  /\ staged = history.present

\* C6: redo changes nothing when future is empty; otherwise the first
\* entry of future becomes present, the old present goes to the end of
\* past and the staged state equals the new present.
C6_Redo ==
  [][op' = "redo"
      => IF history.future = <<>>
           THEN UNCHANGED <<history, staged, stagedRef>>
           ELSE /\ history'.future = Tail(history.future)
                /\ history'.present = history.future[1]
                /\ history'.past = Append(history.past, history.present)
                /\ staged' = history'.present
                /\ stagedRef' = history'.present]_vars

C6_Witness ==
  /\ op = "redo"
  /\ Len(history.past) >= 2
  /\ canRedo
  /\ staged = history.present

\* C7: reset(v) makes v both the staged and the present value and empties
\* past and future, so that canUndo and canRedo are false.
C7_Reset ==
  [][op' = "reset"
      => /\ staged' = arg'
         /\ stagedRef' = arg'
         /\ history' = HistoryOf(<<>>, arg', <<>>)
         /\ ~canUndo'
         /\ ~canRedo']_vars

C7_Witness ==
  /\ op = "reset"
  /\ history = HistoryOf(<<>>, arg, <<>>)
  /\ staged = arg
  /\ arg # Null

RunChangesPresent ==
  /\ run.A # Null /\ run.B # Null /\ run.C # Null
  /\ JSONstringify(run.A) # JSONstringify(run.initial)
  /\ JSONstringify(run.B) # JSONstringify(run.A)
  /\ JSONstringify(run.C) # JSONstringify(run.A)

C9_NoAdjacentEqual ==
  \A i \in 1..(Len(Timeline(history)) - 1) :
    ~DeepEqual(Timeline(history)[i], Timeline(history)[i + 1])

\* C10: no call makes both past and future longer: commit and redo may
\* lengthen past only, undo future only, stage and reset neither.
C10_NeverBothGrow ==
  [][/\ ~(Len(history'.past) > Len(history.past)
           /\ Len(history'.future) > Len(history.future))
     /\ op' \in {"commit", "redo"}
          => Len(history'.future) <= Len(history.future)
     /\ op' = "undo" => Len(history'.past) <= Len(history.past)
     /\ op' \in {"stage", "reset"}
          => /\ Len(history'.past) <= Len(history.past)
             /\ Len(history'.future) <= Len(history.future)]_vars

C10_Witness ==
  /\ op = "commit"
  /\ Len(history.past) = MaxPast
  /\ history.future = <<>>
  /\ arg # Undefined

\* C11: canUndo is true exactly when past is non-empty and canRedo exactly
\* when future is non-empty; right after construction both are false,
\* state and committed are the initial value and getHistory has empty past
\* and future.
C11_Flags ==
  /\ canUndo <=> (history.past # <<>>)
  /\ canRedo <=> (history.future # <<>>)
  /\ op = "init" =>
       /\ ~canUndo /\ ~canRedo
       /\ \E v \in Values :
            /\ staged = v
            /\ committed = v
            /\ getHistory = [past |-> <<>>, present |-> v, future |-> <<>>]

C11_Witness ==
  /\ op # "init"
  /\ Len(history.past) = 1
  /\ canUndo /\ canRedo

\* C12: every interaction event restarts the 500 ms timer and creates no
\* history entry; the deferred commit runs only once 500 ms have passed
\* since the last interaction event, and then commits exactly the value
\* staged last; a history entry is never created in any other way than by
\* that commit, a discrete action, undo or redo.
C12_Debounce ==
  [][/\ (op' = "interact" /\ idleMs' = 0)
          => (timers' = <<DebounceMs>> /\ history' = history)
     /\ op' = "timer"
          => /\ op = "interact"
             /\ idleMs = DebounceMs
             /\ history'.present = stagedRef
             /\ staged' = stagedRef
     /\ history' # history
          => op' \in {"timer", "discrete", "undo", "redo"}]_vars

C12_Witness ==
  /\ op = "timer"
  /\ idleMs = DebounceMs
  /\ timers = <<>>
  /\ Len(history.past) >= 2
  /\ history.present = staged

\* C13: a discrete action cancels the pending timer and commits its
\* explicit value at once; there are never two live timers; and a timer is
\* live only after an interaction event, so that no deferred commit
\* follows a discrete action.
C13_Discrete ==
  [][/\ op' = "discrete"
          => /\ timers' = <<>>
             /\ committed' = arg'
             /\ staged' = arg'
     /\ Len(timers') <= 1
     /\ timers' # <<>> => op' = "interact"
     /\ op = "discrete" => op' # "timer"]_vars

\* the discrete action came 250 ms after an interaction, timer pending
C13_Witness ==
  /\ op = "discrete"
  /\ idleMs = 250
  /\ timers = <<>>
  /\ committed = arg
  /\ canUndo

\* C14: undo and redo cancel the pending timer; after them no deferred
\* commit fires and past, present and future change only by a further
\* discrete action, undo or redo (or after a new interaction event).
C14_UndoCancels ==
  [][/\ op' \in {"undo", "redo"} => timers' = <<>>
     /\ op \in {"undo", "redo"} => op' # "timer"
     /\ (op \in {"undo", "redo"} /\ history' # history)
          => op' \in {"discrete", "undo", "redo"}]_vars

\* the undo came 250 ms after an interaction, timer pending
C14_Witness ==
  /\ op = "undo"
  /\ idleMs = 250
  /\ timers = <<>>
  /\ canRedo
  /\ staged = history.present

(***************************************************************************)
(* Properties of findMaxRotation                                           *)
(***************************************************************************)
\* the rounding error the fixed-point numbers may add to a length
Tolerance == One \div 1000

\* centred containment: the four corners of a centred crop of size c lie
\* inside the imgW x imgH image rotated by deg
Contained(c, imgW, imgH, deg) ==
  LET theta == ToRadians(Abs(deg))
      cosT  == Cos(theta)
      sinT  == Sin(theta)
      hw    == c.width \div 2
      hh    == c.height \div 2
  IN  /\ FMul(hw, cosT) + FMul(hh, sinT) <= imgW \div 2 + Tolerance
      /\ FMul(hw, sinT) + FMul(hh, cosT) <= imgH \div 2 + Tolerance

\* C17: for every imgW, imgH, minW, minH and every customCrop (null or a
\* Size), 0 <= lo <= hi <= 45 holds throughout the iterations of
\* findMaxRotation, and the value returned is round(lo * 10) / 10, lies in
\* [0, 45] and is a multiple of 0.1.
C17_Range ==
  /\ search.pc \in {"loop", "done"} =>
       /\ 0 <= search.lo
       /\ search.lo <= search.hi
       /\ search.hi <= Fix(45)
       /\ search.i <= Iterations
  /\ search.pc = "done" =>
       /\ search.result = ((search.lo * 10 + One \div 2) \div One)
                            * (One \div 10)
       /\ 0 <= search.result
       /\ search.result <= Fix(45)
       /\ search.result % (One \div 10) = 0

\* a search that has returned an angle strictly between 0 and 45 after all
\* its iterations
C17_Witness ==
  /\ search.pc = "done"
  /\ search.i = Iterations
  /\ 0 < search.result
  /\ search.result < Fix(45)
  /\ search.lo # search.result

\* C18: for a non-null customCrop, at the angle R returned by
\* findMaxRotation the centred crop of the size clampCropDims gives for
\* customCrop lies inside the image rotated by R.  Stated for minimums that
\* fit the unrotated image, where an angle that contains them exists.
C18_CustomCropContained ==
  (/\ search.pc = "done"
   /\ IsSize(search.customCrop)
   /\ 0 < search.minW /\ search.minW <= search.imgW
   /\ 0 < search.minH /\ search.minH <= search.imgH) =>
    Contained(clampCropDims(search.customCrop.width, search.customCrop.height,
                            search.imgW, search.imgH, search.result,
                            search.minW, search.minH),
              search.imgW, search.imgH, search.result)

\* C19: for customCrop = null and minimums that fit the unrotated image,
\* computeCropSize at the angle R returned by findMaxRotation has
\* width >= minW and height >= minH.
C19_ResultFeasible ==
  (/\ search.pc = "done"
   /\ search.customCrop = Null
   /\ 0 < search.minW /\ search.minW <= search.imgW
   /\ 0 < search.minH /\ search.minH <= search.imgH) =>
    LET c == computeCropSize(search.imgW, search.imgH, search.result)
    IN  /\ c.width + Tolerance >= search.minW
        /\ c.height + Tolerance >= search.minH

\* the minimums of SearchMins that are at most <<minW, minH>> in both
\* coordinates
SmallerMins(minW, minH) ==
  { m \in SearchMins : Fix(m[1]) <= minW /\ Fix(m[2]) <= minH }

\* C20: for imgW, imgH > 0 and customCrop = null, findMaxRotation with
\* smaller or equal minimums returns an angle at least as large.
C20_Monotone ==
  (/\ search.pc = "done"
   /\ search.customCrop = Null
   /\ search.imgW > 0 /\ search.imgH > 0) =>
    \A m \in SmallerMins(search.minW, search.minH) :
      findMaxRotation(search.imgW, search.imgH, Null, Fix(m[1]), Fix(m[2]))
        >= search.result

\* a search whose result is strictly below the one for smaller minimums
C20_Witness ==
  /\ search.pc = "done"
  /\ search.customCrop = Null
  /\ search.imgW > 0 /\ search.imgH > 0
  /\ \E m \in SmallerMins(search.minW, search.minH) :
       findMaxRotation(search.imgW, search.imgH, Null, Fix(m[1]), Fix(m[2]))
         > search.result

(***************************************************************************)
(* Properties of the cropper                                               *)
(***************************************************************************)
\* size s has the minimum width and height of cropper state c
MeetsMinimums(s, c) ==
  /\ s.width + Tolerance >= c.minCropWidth
  /\ s.height + Tolerance >= c.minCropHeight

\* size s, centred, lies inside the image of c at its rotation
ContainedIn(s, c) ==
  Contained(s, effectiveDims(c).width, effectiveDims(c).height, c.rotation)

\* the minimum rectangle fits the image of c unrotated, and at its rotation
MinimumsFit(c) ==
  /\ c.minCropWidth <= effectiveDims(c).width
  /\ c.minCropHeight <= effectiveDims(c).height
MinimumsContained(c) == ContainedIn(Size(c.minCropWidth, c.minCropHeight), c)

\* C15 as stated: in every reachable state of the cropper a non-null stored
\* cropSize satisfies the minimum-size constraints and centred containment
\* for the current rotation and effective image dimensions.
C15_StoredCropValid ==
  (cropper.mounted /\ IsSize(cropper.cropSize)) =>
    /\ MeetsMinimums(cropper.cropSize, cropper)
    /\ ContainedIn(cropper.cropSize, cropper)

\* C15, amended: a corner resize stores clampCropDims of the desired size
\* for the rotation, effective image dimensions and minimums of that moment,
\* which meets the minimums when they fit the image and is contained when
\* the minimum rectangle is; no other event changes a stored cropSize it
\* keeps (it is not clamped again), and what is kept valid in every state is
\* effectiveCrop, under the same two conditions.
C15_ClampedWhenStored ==
  [][/\ op' = "cornerResize" =>
          /\ cropper'.cropSize =
               clampCropDims(arg'.width, arg'.height,
                             effectiveDims(cropper).width,
                             effectiveDims(cropper).height,
                             cropper.rotation,
                             cropper.minCropWidth, cropper.minCropHeight)
          /\ MinimumsFit(cropper') =>
               MeetsMinimums(cropper'.cropSize, cropper')
          /\ MinimumsContained(cropper') =>
               ContainedIn(cropper'.cropSize, cropper')
     /\ (op' # "cornerResize" /\ IsSize(cropper'.cropSize)) =>
          cropper'.cropSize = cropper.cropSize
     /\ IsSize(cropper'.cropSize) =>
          /\ MinimumsFit(cropper') =>
               MeetsMinimums(effectiveCrop(cropper'), cropper')
          /\ MinimumsContained(cropper') =>
               ContainedIn(effectiveCrop(cropper'), cropper')
    ]_vars

\* after a slider change the stored cropSize no longer fits the rotated
\* image, while effectiveCrop does
C15_Witness ==
  /\ cropper.mounted
  /\ op = "rotationChange"
  /\ IsSize(cropper.cropSize)
  /\ MinimumsContained(cropper)
  /\ ~ContainedIn(cropper.cropSize, cropper)
  /\ ContainedIn(effectiveCrop(cropper), cropper)

\* the events whose handler does not set rotation
KeepsRotation == {"syncDisplaySize", "cornerResize", "resetCrop", "setMinimums"}

\* C16: whenever maxRotation changes, the render's effect has clamped the
\* stored rotation into [-maxRotation, maxRotation]; after an event that does
\* not itself set rotation, rotation is the clamped previous rotation.
C16_RotationClamped ==
  [][cropper'.maxRotation # cropper.maxRotation =>
       /\ 0 - cropper'.maxRotation <= cropper'.rotation
       /\ cropper'.rotation <= cropper'.maxRotation
       /\ op' \in KeepsRotation =>
            cropper'.rotation =
              Max(0 - cropper'.maxRotation,
                  Min(cropper'.maxRotation, cropper.rotation))
    ]_vars

\* a change of the minimums or of the crop has lowered maxRotation below the
\* slider's rotation, which now equals the new bound
C16_Witness ==
  /\ cropper.mounted
  /\ op \in {"setMinimums", "resetCrop"}
  /\ cropper.maxRotation < Fix(45)
  /\ cropper.rotation # 0
  /\ Abs(cropper.rotation) = cropper.maxRotation

(***************************************************************************)
(* Claims about the geometry helpers called on their own (HelperSpec).     *)
(***************************************************************************)
\* the call of the helper fn has returned
Returned(fn) == helper.pc = "done" /\ helper.fn = fn

\* the minimums of the clampCropDims call are feasible: the centred
\* minW x minH rectangle fits inside the rotated image
MinimumsFeasible ==
  Contained(Size(helper.minW, helper.minH),
            helper.imgW, helper.imgH, helper.rotationDeg)

\* C21: for every requested crop size, image size and rotation for which
\* the minimums are feasible, clampCropDims returns width >= minWidth and
\* height >= minHeight, also when the requested size is below the minimums.
C21_MeetsMinimums ==
  Returned("clampCropDims") /\ MinimumsFeasible =>
    /\ helper.result.width >= helper.minW
    /\ helper.result.height >= helper.minH

\* a request below both minimums on a rotated image, answered by the
\* minimums
C21_Witness ==
  /\ Returned("clampCropDims") /\ MinimumsFeasible
  /\ helper.rotationDeg = Fix(10)
  /\ helper.cropW < helper.minW /\ helper.cropH < helper.minH
  /\ helper.minH = Fix(90)
  /\ helper.result = Size(helper.minW, helper.minH)

\* C22: when the minimums are feasible, the centred rectangle of the size
\* clampCropDims returns fits inside the rotated image (at zero rotation:
\* width <= imgW and height <= imgH), and neither returned dimension
\* exceeds the larger of the requested one and the minimum.
C22_ResultContained ==
  Returned("clampCropDims") /\ MinimumsFeasible =>
    /\ Contained(helper.result, helper.imgW, helper.imgH, helper.rotationDeg)
    /\ helper.rotationDeg = 0 =>
         /\ helper.result.width <= helper.imgW
         /\ helper.result.height <= helper.imgH
    /\ helper.result.width <= Max(helper.cropW, helper.minW)
    /\ helper.result.height <= Max(helper.cropH, helper.minH)

\* a request larger than the rotated image allows: the width falls back to
\* the minimum and the height is cut down to what then fits
C22_Witness ==
  /\ Returned("clampCropDims") /\ MinimumsFeasible
  /\ helper.rotationDeg = Fix(0 - 30)
  /\ ~Contained(Size(helper.cropW, helper.cropH),
                helper.imgW, helper.imgH, helper.rotationDeg)
  /\ 0 < helper.minW /\ helper.minW < helper.cropW
  /\ helper.result.width = helper.minW
  /\ helper.minH < helper.result.height /\ helper.result.height < helper.cropH

\* C23: for all W, H > 0, computeCropSize(W, H, 0) returns exactly
\* {width: W, height: H}, and computeCropSize returns {0, 0} whenever W = 0
\* or H = 0, whatever the rotation.
C23_ZeroRotationAndEmpty ==
  Returned("computeCropSize") =>
    /\ helper.W > 0 /\ helper.H > 0 /\ helper.rotationDeg = 0 =>
         helper.result = Size(helper.W, helper.H)
    /\ helper.W = 0 \/ helper.H = 0 => helper.result = Size(0, 0)

\* computeCropSize has returned {0, 0} for an image of no width, some
\* height and a rotation
C23_Witness ==
  /\ Returned("computeCropSize")
  /\ helper.W = 0 /\ helper.H > 0 /\ helper.rotationDeg = Fix(10)
  /\ helper.result = Size(0, 0)

\* computeCropSize has returned a 150 x 100 image at zero rotation as it is
C23_WitnessFull ==
  /\ Returned("computeCropSize")
  /\ helper.rotationDeg = 0
  /\ helper.result = Size(Fix(150), Fix(100))

\* C24 as stated: for all W, H > 0 and every rotation theta # 0,
\* computeCropSize(W, H, theta).width < W and .height <= H.
C24_Shrinks ==
  Returned("computeCropSize") /\ helper.W > 0 /\ helper.H > 0
    /\ helper.rotationDeg # 0 =>
      /\ helper.result.width < helper.W
      /\ helper.result.height <= helper.H

\* C24 as amended: for all W, H > 0 and every rotation of at least 1e-9
\* radians and at most 90 degrees, a square image at 90 degrees excepted,
\* computeCropSize(W, H, theta).width < W and .height <= H.
C24_ShrinksBelowQuarterTurn ==
  Returned("computeCropSize") /\ helper.W > 0 /\ helper.H > 0
    /\ ~LtEps(ToRadians(Abs(helper.rotationDeg)))
    /\ Abs(helper.rotationDeg) <= Fix(90)
    /\ ~(Abs(helper.rotationDeg) = Fix(90) /\ helper.W = helper.H) =>
      /\ helper.result.width < helper.W
      /\ helper.result.height <= helper.H

\* a 150 x 100 image rotated by -30 degrees: both dimensions shrink
C24_Witness ==
  /\ Returned("computeCropSize")
  /\ helper.W = Fix(150) /\ helper.H = Fix(100)
  /\ helper.rotationDeg = Fix(0 - 30)
  /\ helper.result.width < helper.W
  /\ helper.result.height < helper.H

\* the crop of the clampOffset call fits inside the rotated image when
\* centred
CropFitsCentred ==
  Contained(Size(helper.cropW, helper.cropH),
            helper.imgW, helper.imgH, helper.rotationDeg)

\* C25: for every crop size that satisfies containment when centred in the
\* image rotated by theta, clampOffset(0, 0, cropW, cropH, imgW, imgH,
\* theta) returns (0, 0).
C25_CentredUnmoved ==
  Returned("clampOffset") /\ CropFitsCentred
    /\ helper.ox = 0 /\ helper.oy = 0 =>
      helper.result = Point(0, 0)

\* clampOffset has returned (0, 0) for the centred 60 x 40 crop of an image
\* rotated by -30 degrees
C25_Witness ==
  /\ Returned("clampOffset") /\ CropFitsCentred
  /\ helper.first = Null
  /\ helper.ox = 0 /\ helper.oy = 0
  /\ helper.cropW = Fix(60) /\ helper.rotationDeg = Fix(0 - 30)
  /\ helper.result = Point(0, 0)

\* C26: clampOffset is idempotent: for every input offset, crop size,
\* image size and rotation, clampOffset of its own output (same crop, image
\* and rotation) is that output again, within the tolerance of 0.5.
C26_Idempotent ==
  Returned("clampOffset") /\ helper.first # Null =>
    /\ Abs(helper.result.x - helper.first.result.x) <= Half
    /\ Abs(helper.result.y - helper.first.result.y) <= Half

\* clampOffset has returned for the second time, the first call having
\* moved the offset of a crop that does not fit the rotated image
C26_Witness ==
  /\ Returned("clampOffset") /\ helper.first # Null
  /\ ~CropFitsCentred
  /\ helper.rotationDeg = Fix(10)
  /\ helper.first.result # Point(helper.first.ox, helper.first.oy)
  /\ helper.result = helper.first.result

\* u and v of the corner <<px, py>>, as clampOffset computes them
CornerU(px, py, theta) == FMul(px, Cos(theta)) + FMul(py, Sin(theta))
CornerV(px, py, theta) == FMul(0 - px, Sin(theta)) + FMul(py, Cos(theta))

\* the four corners of the crop at offset p lie inside the rotated image
\* within the tolerance of 0.5
CornersInside(p) ==
  \A sx \in {0 - 1, 1}, sy \in {0 - 1, 1} :
    /\ Abs(CornerU(p.x + sx * (helper.cropW \div 2),
                   p.y + sy * (helper.cropH \div 2),
                   Radians(helper.rotationDeg)))
         <= helper.imgW \div 2 + Half
    /\ Abs(CornerV(p.x + sx * (helper.cropW \div 2),
                   p.y + sy * (helper.cropH \div 2),
                   Radians(helper.rotationDeg)))
         <= helper.imgH \div 2 + Half

\* C27: for every crop that fits inside the rotated image when centred and
\* every input offset, the offset clampOffset returns places all four
\* corners of the crop inside the rotated image within the tolerance of
\* 0.5, and the loop has ended within its 8 iterations by finding every
\* corner inside.
C27_CornersInside ==
  /\ helper.pc = "loop" /\ CropFitsCentred =>
       helper.iter <= OffsetIterations
  /\ Returned("clampOffset") /\ CropFitsCentred =>
       /\ CornersInside(helper.result)
       /\ helper.ok

\* clampOffset has brought back a crop dragged far off a rotated image
C27_Witness ==
  /\ Returned("clampOffset") /\ CropFitsCentred
  /\ helper.first = Null
  /\ helper.ox = Fix(300) /\ helper.rotationDeg = Fix(45)
  /\ ~CornersInside(Point(helper.ox, helper.oy))
  /\ CornersInside(helper.result)

(***************************************************************************)
(* Claims about the coarse rotation of the cropper (CropperSpec).          *)
(***************************************************************************)
\* what Rotate 90 and Rotate 180 reset
RotationAndCropReset(c) ==
  /\ c.rotation = 0
  /\ c.cropSize = Null
  /\ c.cropOffset = Point(0, 0)

\* C28: Rotate 90 and Rotate 180 set baseRotation to (baseRotation + 90)
\* mod 360 and (baseRotation + 180) mod 360, and reset the fine rotation to
\* 0, cropSize to null and cropOffset to (0, 0); baseRotation is one of 0,
\* 90, 180, 270 in every reachable state, and from every reachable
\* baseRotation four Rotate 90 updates lead back to it.
C28_CoarseRotation ==
  /\ [](cropper.mounted =>
          /\ cropper.baseRotation \in {0, 90, 180, 270}
          /\ turnBy(turnBy(turnBy(turnBy(cropper.baseRotation, 90), 90), 90),
                    90) = cropper.baseRotation)
  /\ [][/\ op' = "rotate90" =>
             /\ cropper'.baseRotation = (cropper.baseRotation + 90) % 360
             /\ RotationAndCropReset(cropper')
        /\ op' = "rotate180" =>
             /\ cropper'.baseRotation = (cropper.baseRotation + 180) % 360
             /\ RotationAndCropReset(cropper')
       ]_vars

\* the third Rotate 90 in a row after upload and load of the image
C28_Witness ==
  /\ cropper.mounted /\ op = "rotate90"
  /\ cropper.events = 5
  /\ cropper.baseRotation = 270
  /\ RotationAndCropReset(cropper)

(***************************************************************************)
(* Claims about undo, redo and the staged value of the hook (Spec).        *)
(***************************************************************************)
\* C29: undo and redo preserve the sequence past ++ [present] ++ future and
\* move the position of present by one entry; from any state with non-empty
\* past, undo followed by redo restores past, present and future exactly,
\* and from any state with non-empty future, redo followed by undo does.
C29_UndoRedoRoundTrip ==
  /\ [](Len(history.past) > 0 =>
          redoUpdater(undoUpdater(history)) = history)
  /\ [](Len(history.future) > 0 =>
          undoUpdater(redoUpdater(history)) = history)
  /\ [][/\ op' = "undo" /\ Len(history.past) > 0 =>
             /\ Timeline(history') = Timeline(history)
             /\ Len(history'.past) = Len(history.past) - 1
        /\ op' = "redo" /\ Len(history.future) > 0 =>
             /\ Timeline(history') = Timeline(history)
             /\ Len(history'.past) = Len(history.past) + 1
       ]_vars

\* a redo has just moved present forward to the middle of a timeline of
\* three different entries
C29_Witness ==
  /\ op = "redo"
  /\ Len(history.past) = 1 /\ Len(history.future) = 1
  /\ ~DeepEqual(history.past[1], history.present)
  /\ ~DeepEqual(history.present, history.future[1])

\* update i of the running handler is an undo, redo or reset that changes
\* present when it is rendered
Restored(i) ==
  /\ run.queue[i].kind \in {"undo", "redo", "reset"}
  /\ historyAfter(i).present # historyAfter(i - 1).present

(***************************************************************************)
(* C30: right after an undo, redo or reset that changed present, staged    *)
(* equals present, so a commit() without argument that follows it (with no *)
(* stage in between, in the same handler or a later one) leaves past,      *)
(* present and future as the undo, redo or reset left them: at the render  *)
(* of a handler, the update of a commit() called directly after such a     *)
(* call changes nothing, and when such a call was the last of the handler  *)
(* staged and stagedRef.current equal present after the render.            *)
(***************************************************************************)
C30_CommitAfterRestore ==
  [][op' = "render" =>
       /\ \A i \in 2..Len(run.queue) :
            ( /\ run.queue[i].kind = "commit"
              /\ run.queue[i].arg = Undefined
              /\ run.queue[i].call = run.queue[i - 1].call + 1
              /\ Restored(i - 1) )
            => historyAfter(i) = historyAfter(i - 1)
       /\ ( /\ Len(run.queue) > 0
            /\ run.queue[Len(run.queue)].call = run.calls
            /\ Restored(Len(run.queue)) )
          => /\ staged' = history'.present
             /\ stagedRef' = history'.present
  ]_vars

====
